---- MODULE Spec2Model ----
(***************************************************************************)
(* A model of pdhg_solve (src/pdhg_solver.py): the construction of the     *)
(* sparse operator, the power iteration that estimates ||A||, the step     *)
(* sizes, and the PDHG loop with its box projection and stopping rule.     *)
(*                                                                         *)
(* Numbers.  A float is modelled by a pair <<n, d>> with d >= 0:           *)
(*   d > 0   the rational n/d in lowest terms,                             *)
(*   <<1,0>> +inf,  <<-1,0>> -inf,  <<0,0>> NaN.                           *)
(* Arithmetic is exact on the rationals and follows IEEE-754 on inf and    *)
(* NaN (inf*0 = NaN, inf-inf = NaN, 1/0 = inf, comparisons with NaN are    *)
(* false).  Rounding and overflow of float64 are not modelled.  A square   *)
(* root is taken only of values whose root is rational; Init draws only    *)
(* problem data on which the norm estimator meets no other value.          *)
(***************************************************************************)
EXTENDS Integers, Sequences, FiniteSets

(***************************************************************************)
(* Bounds of the model.                                                    *)
(***************************************************************************)
\* max_iter is drawn from 0..MaxIter and from the default of the signature.
MaxIter == 3
\* The triplet arrays hold at most this many entries.
MaxNnz == 2
\* The vectors the projection is applied to alone hold at most this many entries.
MaxLen == 2

(***************************************************************************)
(* Constants of the program.                                               *)
(***************************************************************************)
DefaultMaxIter == 1000000
PowerRounds == 10

(***************************************************************************)
(* Extended rational arithmetic.                                           *)
(***************************************************************************)
Abs(i) == IF i < 0 THEN -i ELSE i

Sign(i) == IF i > 0 THEN 1 ELSE IF i < 0 THEN -1 ELSE 0

RECURSIVE GCD(_, _)
GCD(a, b) == IF b = 0 THEN a ELSE GCD(b, a % b)

\* The value n/d (d >= 0) in its normal form.
Q(n, d) ==
    IF d = 0 THEN <<Sign(n), 0>>
    ELSE LET g == GCD(Abs(n), d) IN <<n \div g, d \div g>>

NaN == <<0, 0>>
PInf == <<1, 0>>
NInf == <<-1, 0>>
Zero == <<0, 1>>
One == <<1, 1>>

Int2Q(i) == <<i, 1>>

IsNaN(a) == a = NaN
IsFinite(a) == a[2] > 0

Add(a, b) ==
    IF a[2] = 0 /\ b[2] = 0
    THEN (IF a = b THEN a ELSE NaN)
    ELSE Q(a[1] * b[2] + b[1] * a[2], a[2] * b[2])

Neg(a) == <<-a[1], a[2]>>

Sub(a, b) == Add(a, Neg(b))

Mul(a, b) == Q(a[1] * b[1], a[2] * b[2])

\* 1.0 / a on float64 scalars: 1/0 is +inf (a warning, no exception).
Recip(a) ==
    IF a[1] > 0 THEN Q(a[2], a[1])
    ELSE IF a[1] < 0 THEN Q(-a[2], -a[1])
    ELSE IF a[2] > 0 THEN PInf ELSE NaN

Div(a, b) == Mul(a, Recip(b))

Leq(a, b) ==
    IF IsNaN(a) \/ IsNaN(b) THEN FALSE
    ELSE IF a[2] = 0 /\ b[2] = 0 THEN a[1] <= b[1]
    ELSE a[1] * b[2] <= b[1] * a[2]

Lt(a, b) == Leq(a, b) /\ a # b

\* Python's builtin max(a, b): b when b > a, else a (so max(1.0, nan) = 1.0).
PyMax(a, b) == IF Lt(a, b) THEN b ELSE a

\* np.maximum and np.minimum on one coordinate: NaN when either side is NaN.
Maximum(a, b) ==
    IF IsNaN(a) \/ IsNaN(b) THEN NaN ELSE IF Leq(a, b) THEN b ELSE a

Minimum(a, b) ==
    IF IsNaN(a) \/ IsNaN(b) THEN NaN ELSE IF Leq(a, b) THEN a ELSE b

IsSquare(i) == \E r \in 0..i : r * r = i

Root(i) == CHOOSE r \in 0..i : r * r = i

\* The values np.sqrt is exact on.
HasRationalRoot(a) == a[2] = 0 \/ (a[1] >= 0 /\ IsSquare(a[1]) /\ IsSquare(a[2]))

\* np.sqrt.
Sqrt(a) ==
    IF a[2] = 0 THEN (IF a = PInf THEN PInf ELSE NaN)
    ELSE IF a[1] < 0 THEN NaN
    ELSE <<Root(a[1]), Root(a[2])>>

(***************************************************************************)
(* Vectors: sequences of values.                                           *)
(***************************************************************************)
\* The sequence <<F(1), ..., F(n)>>.
RECURSIVE Tab(_, _)
Tab(F(_), n) == IF n = 0 THEN <<>> ELSE Append(Tab(F, n - 1), F(n))

Zeros(n) == Tab(LAMBDA i : Zero, n)

VAdd(u, v) == Tab(LAMBDA i : Add(u[i], v[i]), Len(u))

VSub(u, v) == Tab(LAMBDA i : Sub(u[i], v[i]), Len(u))

VScale(s, v) == Tab(LAMBDA i : Mul(s, v[i]), Len(v))

VDiv(v, s) == Tab(LAMBDA i : Div(v[i], s), Len(v))

RECURSIVE SumTo(_, _)
SumTo(v, j) == IF j = 0 THEN Zero ELSE Add(SumTo(v, j - 1), v[j])

SumQ(v) == SumTo(v, Len(v))

\* The square of np.linalg.norm(v).
SqNorm(v) == SumQ(Tab(LAMBDA i : Mul(v[i], v[i]), Len(v)))

\* np.linalg.norm(v), where the root is rational.
Norm(v) == Sqrt(SqNorm(v))

(***************************************************************************)
(* The sparse operator.  The triplets hold 0-based indices, as in the      *)
(* file; the built matrix stores one value per stored position, the sum of *)
(* the triplets that name it (an explicit zero stays stored).              *)
(***************************************************************************)
\* CooValid without the test for negative indices.
CooValid_NoNegative(d) ==
    /\ Len(d.A_row) = Len(d.A_data)
    /\ Len(d.A_col) = Len(d.A_data)
    /\ \A t \in 1..Len(d.A_data) :
          /\ d.A_row[t] < d.A_shape[1]
          /\ d.A_col[t] < d.A_shape[2]

\* The checks of scipy's coo_matrix constructor: a ValueError is raised when
\* the three arrays differ in length or an index is outside the shape.
CooValid(d) ==
    /\ Len(d.A_row) = Len(d.A_data)
    /\ Len(d.A_col) = Len(d.A_data)
    /\ \A t \in 1..Len(d.A_data) :
          /\ 0 <= d.A_row[t] /\ d.A_row[t] < d.A_shape[1]
          /\ 0 <= d.A_col[t] /\ d.A_col[t] < d.A_shape[2]

RECURSIVE SumAt(_, _, _)
SumAt(d, p, t) ==
    IF t = 0 THEN 0
    ELSE SumAt(d, p, t - 1)
         + (IF <<d.A_row[t], d.A_col[t]>> = p THEN d.A_data[t] ELSE 0)

\* sp.coo_matrix((A_data, (A_row, A_col)), shape=A_shape).tocsr()
CooToCsr(d) ==
    [shape |-> d.A_shape,
     val |-> [p \in {<<d.A_row[t], d.A_col[t]>> : t \in 1..Len(d.A_data)} |->
                 Int2Q(SumAt(d, p, Len(d.A_data)))]]

\* A.transpose()
Transpose(M) ==
    [shape |-> <<M.shape[2], M.shape[1]>>,
     val |-> [p \in {<<q[2], q[1]>> : q \in DOMAIN M.val} |-> M.val[<<p[2], p[1]>>]]]

RECURSIVE RowDot(_, _, _, _)
RowDot(M, i, v, j) ==
    IF j = 0 THEN Zero
    ELSE Add(RowDot(M, i, v, j - 1),
             IF <<i, j - 1>> \in DOMAIN M.val
             THEN Mul(M.val[<<i, j - 1>>], v[j]) ELSE Zero)

\* M.dot(v): each row sums its stored entries only.
Dot(M, v) == Tab(LAMBDA i : RowDot(M, i - 1, v, M.shape[2]), M.shape[1])

(***************************************************************************)
(* The norm estimator.                                                     *)
(***************************************************************************)
\* One round of the power iteration: s = [x_rand, norm_x].
PowerRound(M, MT, s) ==
    LET v == Dot(MT, Dot(M, s.x_rand))
        nrm == Norm(v)
    IN [x_rand |-> IF Lt(Zero, nrm) THEN VDiv(v, nrm) ELSE v, norm_x |-> nrm]

\* The rounds of range(r), each on the value the round before left.
RECURSIVE PowerIter(_, _, _, _)
PowerIter(M, MT, s, r) ==
    IF r = 0 THEN s
    ELSE CHOOSE out \in {PowerIter(M, MT, t, r - 1) : t \in {PowerRound(M, MT, s)}} : TRUE

\* L = np.sqrt(norm_x) after the rounds.
EstimateNorm(M, MT, xr) ==
    Sqrt(PowerIter(M, MT, [x_rand |-> xr, norm_x |-> Zero], PowerRounds).norm_x)

\* Every root the estimator takes on (M, xr) is rational.
RECURSIVE ExactRounds(_, _, _, _)
ExactRounds(M, MT, v, r) ==
    IF r = 0 THEN TRUE
    ELSE /\ HasRationalRoot(SqNorm(Dot(MT, Dot(M, v))))
         /\ \A t \in {PowerRound(M, MT, [x_rand |-> v, norm_x |-> Zero])} :
               /\ (r = 1 => HasRationalRoot(t.norm_x))
               /\ ExactRounds(M, MT, t.x_rand, r - 1)

ExactNorm(M, MT, xr) == ExactRounds(M, MT, xr, PowerRounds)

(***************************************************************************)
(* The loop body.                                                          *)
(***************************************************************************)
\* Clamp with the sign of x slipped.
Clamp_SignSlip(x, lb, ub) ==
    Tab(LAMBDA i : Minimum(Maximum(Neg(x[i]), lb[i]), ub[i]), Len(x))

\* Clamp without the upper bound.
Clamp_NoUpper(x, lb, ub) == Tab(LAMBDA i : Maximum(x[i], lb[i]), Len(x))

\* np.minimum(np.maximum(x, lb), ub)
Clamp(x, lb, ub) == Tab(LAMBDA i : Minimum(Maximum(x[i], lb[i]), ub[i]), Len(x))

\* Body with the primal step taken on the y of the iteration before.
Body_StaleDual(M, MT, d, sigma, tau, theta, s) ==
    LET y1 == VAdd(s.y, VScale(sigma, VSub(Dot(M, s.x_bar), d.b)))
        xo == s.x
        grad == VAdd(Dot(MT, s.y), d.c)
        x1 == VSub(s.x, VScale(tau, grad))
        x2 == Tab(LAMBDA i : Minimum(Maximum(x1[i], d.lb[i]), d.ub[i]), Len(x1))
        xb == VAdd(x2, VScale(theta, VSub(x2, xo)))
    IN [x |-> x2, x_bar |-> xb, y |-> y1, x_old |-> xo]

\* Body with the dual step descending.
Body_DualDescent(M, MT, d, sigma, tau, theta, s) ==
    LET y1 == VSub(s.y, VScale(sigma, VSub(Dot(M, s.x_bar), d.b)))
        xo == s.x
        grad == VAdd(Dot(MT, y1), d.c)
        x1 == VSub(s.x, VScale(tau, grad))
        x2 == Tab(LAMBDA i : Minimum(Maximum(x1[i], d.lb[i]), d.ub[i]), Len(x1))
        xb == VAdd(x2, VScale(theta, VSub(x2, xo)))
    IN [x |-> x2, x_bar |-> xb, y |-> y1, x_old |-> xo]

\* One pass of the loop body on the iteration state s = [x, x_bar, y, x_old].
Body(M, MT, d, sigma, tau, theta, s) ==
    LET y1 == VAdd(s.y, VScale(sigma, VSub(Dot(M, s.x_bar), d.b)))
        xo == s.x
        grad == VAdd(Dot(MT, y1), d.c)
        x1 == VSub(s.x, VScale(tau, grad))
        x2 == Clamp(x1, d.lb, d.ub)
        xb == VAdd(x2, VScale(theta, VSub(x2, xo)))
    IN [x |-> x2, x_bar |-> xb, y |-> y1, x_old |-> xo]

\* sqrt(d2) <= tol * sqrt(r2) for finite d2, r2 >= 0 of rational or irrational
\* root and finite tol >= 0, decided on the squares: with d2 = p/q, r2 = u/v
\* and tol = a/b it is p*v*b*b <= a*a*u*q.
RootLeq(d2, tol, r2) ==
    d2[1] * r2[2] <= ((tol[1] * tol[1] * r2[1] * d2[2]) \div tol[2]) \div tol[2]

\* np.linalg.norm(x - x_old) <= tol * max(1.0, np.linalg.norm(x_old))
ConvTest(x, x_old, tol) ==
    LET d2 == SqNorm(VSub(x, x_old))
        n2 == SqNorm(x_old)
        r2 == PyMax(One, n2)
    IN IF IsNaN(d2) THEN FALSE
       ELSE IF ~IsFinite(r2) THEN ~IsNaN(Mul(tol, r2))
       ELSE IF ~IsFinite(d2) THEN FALSE
       ELSE RootLeq(d2, tol, r2)

(***************************************************************************)
(* The state.  data is the problem instance the caller passes; every other *)
(* variable is a function of the call, holding that call's arguments and   *)
(* locals.  None stands for a local not yet assigned.                      *)
(***************************************************************************)
VARIABLES data, pc, max_iter, tol, theta, A, AT, L, sigma, tau,
          x, x_bar, y, x_old, k, outcome, reported, result, proj

vars == <<data, pc, max_iter, tol, theta, A, AT, L, sigma, tau,
          x, x_bar, y, x_old, k, outcome, reported, result, proj>>

Calls == {1, 2}

None == <<>>

\* No call of the model runs more loop bodies than this.
StepCap == MaxIter + 1

\* Frame with one set of arrays for every call.
Frame_Shared(p) == 1

\* The arrays of call p are its own: every call allocates them.
Frame(p) == p

\* HasNext with the end of the range included.
HasNext_Inclusive(kk, mi) == kk <= mi

\* range(max_iter) has a next index after k.
HasNext(kk, mi) == kk < mi

\* Reported with the 0-based index.
Reported_ZeroBased(kk) == kk

\* The iteration count printed at a break in iteration k.
Reported(kk) == kk + 1

(***************************************************************************)
(* The inputs.                                                             *)
(***************************************************************************)
SeqsUpTo(S, n) == UNION {[1..l -> S] : l \in 0..n}

Shapes == {<<1, 1>>, <<1, 2>>, <<2, 1>>}

\* Values of A_data; two triplets at one position sum, so A holds -2..2.
DataVals == {-1, 1}

\* The draws of np.random.randn(n) the model follows.
XRand(n) ==
    IF n = 1 THEN {<<Int2Q(1)>>, <<Int2Q(-2)>>}
    ELSE {<<Int2Q(3), Int2Q(4)>>, <<Int2Q(-4), Int2Q(3)>>}

BVecs(m) ==
    IF m = 1 THEN {<<Int2Q(0)>>, <<Int2Q(5)>>}
    ELSE {<<Int2Q(5), Int2Q(0)>>, <<Int2Q(0), Int2Q(-1)>>}

CVecs(n) ==
    IF n = 1 THEN {<<Int2Q(0)>>, <<Int2Q(1)>>, <<Int2Q(-1)>>}
    ELSE {<<Int2Q(0), Int2Q(0)>>, <<Int2Q(1), Int2Q(-1)>>,
          <<Int2Q(1), Int2Q(0)>>, <<Int2Q(-1), Int2Q(1)>>}

\* Pairs <<lb, ub>>; the last of each set has lb > ub in a coordinate.
Boxes(n) ==
    IF n = 1
    THEN {<<<<Int2Q(0)>>, <<Int2Q(10)>>>>, <<<<Int2Q(1)>>, <<Int2Q(1)>>>>,
          <<<<Int2Q(2)>>, <<Int2Q(0)>>>>}
    ELSE {<<<<Int2Q(0), Int2Q(0)>>, <<Int2Q(10), Int2Q(10)>>>>,
          <<<<Int2Q(1), Int2Q(-3)>>, <<Int2Q(1), Int2Q(-3)>>>>,
          <<<<Int2Q(0), Int2Q(1)>>, <<Int2Q(10), Int2Q(1)>>>>,
          <<<<Int2Q(2), Int2Q(0)>>, <<Int2Q(0), Int2Q(10)>>>>}

Problem(sh, t, b, c, bx) ==
    [A_row |-> t.A_row, A_col |-> t.A_col, A_data |-> t.A_data, A_shape |-> sh,
     b |-> b, c |-> c, lb |-> bx[1], ub |-> bx[2]]

\* The triplets alone, as a problem without vectors.
Bare(sh, t) == Problem(sh, t, <<>>, <<>>, <<<<>>, <<>>>>)

\* The estimator takes only rational roots on d, whatever randn draws.
Estimable(d) ==
    \A M \in {CooToCsr(d)} : \A MT \in {Transpose(M)} :
        \A xr \in XRand(d.A_shape[2]) : ExactNorm(M, MT, xr)

\* Well-formed triplets: arrays of one length, indices inside the shape.
WellFormed(sh) ==
    UNION {{[A_row |-> r, A_col |-> c, A_data |-> v] :
               r \in [1..l -> 0..(sh[1] - 1)],
               c \in [1..l -> 0..(sh[2] - 1)],
               v \in [1..l -> DataVals]} : l \in 0..MaxNnz}

\* The well-formed triplets the model solves.
GoodTriplets(sh) ==
    {t \in WellFormed(sh) : Estimable(Bare(sh, t))}

\* data is a well-formed problem, with any choice of b, c, lb, ub.
ValidData(sh) ==
    \E t \in GoodTriplets(sh), b \in BVecs(sh[1]), c \in CVecs(sh[2]), bx \in Boxes(sh[2]) :
        data = Problem(sh, t, b, c, bx)

\* The arrays r, c, v are one of the well-formed triplets of shape sh.
InShape(sh, r, c, v) ==
    /\ Len(r) = Len(v) /\ Len(c) = Len(v)
    /\ \A t \in 1..Len(r) : r[t] \in 0..(sh[1] - 1)
    /\ \A t \in 1..Len(c) : c[t] \in 0..(sh[2] - 1)

\* data has malformed triplets: arrays of any lengths, indices inside and
\* outside the shape; b, c, lb, ub are zero.
InvalidData(sh) ==
    \E r \in SeqsUpTo(-1..sh[1], MaxNnz), c \in SeqsUpTo(-1..sh[2], MaxNnz),
       v \in SeqsUpTo({1}, MaxNnz) :
        /\ ~InShape(sh, r, c, v)
        /\ data = Problem(sh, [A_row |-> r, A_col |-> c, A_data |-> v],
                          Zeros(sh[1]), Zeros(sh[2]), <<Zeros(sh[2]), Zeros(sh[2])>>)

\* The estimate on every matrix and draw of the model, computed once:
\* <<A, x_rand, L>>.
NormTable ==
    UNION {{<<M, xr, EstimateNorm(M, Transpose(M), xr)>> :
               M \in {CooToCsr(Bare(sh, t)) : t \in GoodTriplets(sh)}, xr \in XRand(sh[2])} :
           sh \in Shapes}

MaxIterVals == (0..MaxIter) \cup {DefaultMaxIter}

TolVals == {<<1, 1000000>>, <<1, 1>>}

ThetaVals == {Zero, One}

Args == [max_iter : MaxIterVals, tol : TolVals, theta : ThetaVals]

DefaultArgs == [max_iter |-> DefaultMaxIter, tol |-> <<1, 1000000>>, theta |-> One]

NoProj == [stage |-> "off"]

\* The locals before the first statement, for the calls in started.
Fresh(started, a) ==
    /\ pc = [p \in Calls |-> IF p \in started THEN "construct" ELSE "idle"]
    /\ max_iter = [p \in Calls |-> IF p \in started THEN a[p].max_iter ELSE 0]
    /\ tol = [p \in Calls |-> IF p \in started THEN a[p].tol ELSE Zero]
    /\ theta = [p \in Calls |-> IF p \in started THEN a[p].theta ELSE Zero]
    /\ A = [p \in Calls |-> None]
    /\ AT = [p \in Calls |-> None]
    /\ L = [p \in Calls |-> None]
    /\ sigma = [p \in Calls |-> None]
    /\ tau = [p \in Calls |-> None]
    /\ x = [p \in Calls |-> None]
    /\ x_bar = [p \in Calls |-> None]
    /\ y = [p \in Calls |-> None]
    /\ x_old = [p \in Calls |-> None]
    /\ k = [p \in Calls |-> 0]
    /\ outcome = [p \in Calls |-> "none"]
    /\ reported = [p \in Calls |-> 0]
    /\ result = [p \in Calls |-> None]

\* One call of pdhg_solve.
Init ==
    /\ \E sh \in Shapes : ValidData(sh) \/ InvalidData(sh)
    /\ \E a \in (IF InShape(data.A_shape, data.A_row, data.A_col, data.A_data)
                  THEN Args ELSE {DefaultArgs}) :
          Fresh({1}, [p \in Calls |-> a])
    /\ proj = NoProj

(***************************************************************************)
(* The steps of a call.                                                    *)
(***************************************************************************)
\* Lines 55-62: build A and its transpose; the constructor raises on
\* malformed triplets.
Construct(p) ==
    /\ pc[p] = "construct"
    /\ IF CooValid(data)
       THEN /\ A' = [A EXCEPT ![p] = CooToCsr(data)]
            /\ AT' = [AT EXCEPT ![p] = Transpose(CooToCsr(data))]
            /\ pc' = [pc EXCEPT ![p] = "norm"]
       ELSE /\ pc' = [pc EXCEPT ![p] = "error"]
            /\ UNCHANGED <<A, AT>>
    /\ UNCHANGED <<data, max_iter, tol, theta, L, sigma, tau, x, x_bar, y, x_old,
                   k, outcome, reported, result, proj>>

\* Lines 64-74: the power iteration and the step sizes.
Estimate(p) ==
    /\ pc[p] = "norm"
    /\ \E xr \in XRand(data.A_shape[2]) :
          \E e \in {q \in NormTable : q[1] = A[p] /\ q[2] = xr} :
             /\ L' = [L EXCEPT ![p] = e[3]]
             /\ sigma' = [sigma EXCEPT ![p] = Div(One, e[3])]
             /\ tau' = [tau EXCEPT ![p] = Div(One, e[3])]
    /\ pc' = [pc EXCEPT ![p] = "init"]
    /\ UNCHANGED <<data, max_iter, tol, theta, A, AT, x, x_bar, y, x_old,
                   k, outcome, reported, result, proj>>

\* Lines 76-79: the iteration state.
Initialize(p) ==
    /\ pc[p] = "init"
    /\ x' = [x EXCEPT ![Frame(p)] = Zeros(data.A_shape[2])]
    /\ x_bar' = [x_bar EXCEPT ![Frame(p)] = Zeros(data.A_shape[2])]
    /\ y' = [y EXCEPT ![Frame(p)] = Zeros(data.A_shape[1])]
    /\ pc' = [pc EXCEPT ![p] = "loop"]
    /\ UNCHANGED <<data, max_iter, tol, theta, A, AT, L, sigma, tau, x_old,
                   k, outcome, reported, result, proj>>

\* Lines 81-98 and 102: one pass of the loop body, and the return after a break.
Iterate(p) ==
    /\ pc[p] = "loop"
    /\ HasNext(k[p], max_iter[p])
    /\ k[p] < StepCap
    /\ LET f == Frame(p)
           s == Body(A[p], AT[p], data, sigma[p], tau[p], theta[p],
                     [x |-> x[f], x_bar |-> x_bar[f], y |-> y[f], x_old |-> x_old[f]])
       IN /\ x' = [x EXCEPT ![f] = s.x]
          /\ x_bar' = [x_bar EXCEPT ![f] = s.x_bar]
          /\ y' = [y EXCEPT ![f] = s.y]
          /\ x_old' = [x_old EXCEPT ![f] = s.x_old]
          /\ IF ConvTest(s.x, s.x_old, tol[p])
             THEN /\ outcome' = [outcome EXCEPT ![p] = "Converged"]
                  /\ reported' = [reported EXCEPT ![p] = Reported(k[p])]
                  /\ result' = [result EXCEPT ![p] = s.x]
                  /\ pc' = [pc EXCEPT ![p] = "done"]
                  /\ UNCHANGED k
             ELSE /\ k' = [k EXCEPT ![p] = k[p] + 1]
                  /\ UNCHANGED <<outcome, reported, result, pc>>
    /\ UNCHANGED <<data, max_iter, tol, theta, A, AT, L, sigma, tau, proj>>

\* Lines 99-102: the loop ran out of indices; report and return x.
Exhaust(p) ==
    /\ pc[p] = "loop"
    /\ ~HasNext(k[p], max_iter[p])
    /\ outcome' = [outcome EXCEPT ![p] = "MaxIterReached"]
    /\ reported' = [reported EXCEPT ![p] = max_iter[p]]
    /\ result' = [result EXCEPT ![p] = x[Frame(p)]]
    /\ pc' = [pc EXCEPT ![p] = "done"]
    /\ UNCHANGED <<data, max_iter, tol, theta, A, AT, L, sigma, tau,
                   x, x_bar, y, x_old, k, proj>>

Step(p) ==
    \/ Construct(p)
    \/ Estimate(p)
    \/ Initialize(p)
    \/ Iterate(p)
    \/ Exhaust(p)

Next == \E p \in Calls : Step(p)

Spec == Init /\ [][Next]_vars

(***************************************************************************)
(* Two calls that share one problem instance, interleaved step by step.    *)
(***************************************************************************)
ConcArgs == [max_iter : {1, MaxIter}, tol : TolVals, theta : {One}]

InitConc ==
    /\ ValidData(<<1, 1>>)
    /\ \E a \in [Calls -> ConcArgs] : Fresh(Calls, a)
    /\ proj = NoProj

SpecConc == InitConc /\ [][Next]_vars

(***************************************************************************)
(* The box projection alone, applied once and then again to its result.    *)
(***************************************************************************)
ProjX == {Int2Q(-1), Int2Q(1), Int2Q(3), NaN}

ProjB == {Int2Q(0), Int2Q(2), NaN}

InitClamp ==
    /\ data = None
    /\ Fresh({}, [p \in Calls |-> DefaultArgs])
    /\ \E n \in 1..MaxLen :
          \E v \in [1..n -> ProjX], lo \in [1..n -> ProjB], hi \in [1..n -> ProjB] :
             proj = [stage |-> "in", x |-> v, lb |-> lo, ub |-> hi, arg |-> v, orig |-> v]

ClampOnce ==
    /\ proj.stage = "in"
    /\ proj' = [stage |-> "once", x |-> Clamp(proj.x, proj.lb, proj.ub),
                lb |-> proj.lb, ub |-> proj.ub, arg |-> proj.x, orig |-> proj.orig]
    /\ UNCHANGED <<data, pc, max_iter, tol, theta, A, AT, L, sigma, tau,
                   x, x_bar, y, x_old, k, outcome, reported, result>>

ClampTwice ==
    /\ proj.stage = "once"
    /\ proj' = [stage |-> "twice", x |-> Clamp(proj.x, proj.lb, proj.ub),
                lb |-> proj.lb, ub |-> proj.ub, arg |-> proj.x, orig |-> proj.orig]
    /\ UNCHANGED <<data, pc, max_iter, tol, theta, A, AT, L, sigma, tau,
                   x, x_bar, y, x_old, k, outcome, reported, result>>

NextClamp == ClampOnce \/ ClampTwice

SpecClamp == InitClamp /\ [][NextClamp]_vars

(***************************************************************************)
(* Properties.                                                             *)
(***************************************************************************)
\* The number of loop bodies call p has run.
Iters(p) == IF outcome[p] = "Converged" THEN k[p] + 1 ELSE k[p]

\* Call p has just run one loop body.
RanBody(p) == Iters(p)' = Iters(p) + 1

AllFinite(v) == \A i \in 1..Len(v) : IsFinite(v[i])

\* C1: an estimated norm L that is zero or not finite aborts the call before
\* the step sizes are derived: the call is in error, it has no step sizes,
\* no iteration state and no result.
C1_DegenerateNormAborts ==
    \A p \in Calls :
        (L[p] # None /\ (L[p] = Zero \/ ~IsFinite(L[p])))
            => /\ pc[p] = "error"
               /\ sigma[p] = None /\ tau[p] = None
               /\ x[p] = None /\ result[p] = None

\* C2: a call runs at most max_iter loop bodies and returns in exactly one
\* of two outcomes, both with the current x: Converged, after a body whose
\* test held, or MaxIterReached, after max_iter bodies none of whose tests
\* held.
C2_Returned ==
    \A p \in Calls :
        /\ Iters(p) <= max_iter[p]
        /\ (outcome[p] # "none") = (pc[p] = "done")
        /\ pc[p] = "done" =>
              /\ outcome[p] \in {"Converged", "MaxIterReached"}
              /\ result[p] # None /\ result[p] = x[p]
              /\ outcome[p] = "Converged" =>
                    Iters(p) >= 1 /\ ConvTest(x[p], x_old[p], tol[p])
              /\ outcome[p] = "MaxIterReached" => Iters(p) = max_iter[p]

C2_Continues ==
    \A p \in Calls :
        (RanBody(p) /\ outcome'[p] # "Converged") => ~ConvTest(x'[p], x_old'[p], tol[p])

C2_TwoOutcomes == []C2_Returned /\ [][C2_Continues]_vars

C2_Witness ==
    \E p \in Calls :
        /\ pc[p] = "done" /\ outcome[p] = "MaxIterReached"
        /\ max_iter[p] >= 2 /\ k[p] = max_iter[p]

\* C3: the test is evaluated at the end of every loop body; the call stops
\* at the first body whose test holds, runs nothing after it, and reports
\* that body's 1-indexed number.  A body that leaves x unchanged (x finite)
\* therefore ends the call, reported with its own number.
C3_Body ==
    \A p \in Calls :
        RanBody(p) =>
            /\ ConvTest(x'[p], x_old'[p], tol[p]) =>
                  /\ pc'[p] = "done" /\ outcome'[p] = "Converged"
                  /\ reported'[p] = Iters(p) + 1
            /\ ~ConvTest(x'[p], x_old'[p], tol[p]) =>
                  pc'[p] = "loop" /\ outcome'[p] = "none"
            /\ (x'[p] = x_old'[p] /\ AllFinite(x'[p])) =>
                  outcome'[p] = "Converged" /\ reported'[p] = Iters(p) + 1

C3_Stopped ==
    \A p \in Calls :
        pc[p] = "done" =>
            /\ pc'[p] = "done" /\ outcome'[p] = outcome[p]
            /\ reported'[p] = reported[p] /\ k'[p] = k[p]
            /\ result'[p] = result[p]

C3_StopsAtFirst == [][C3_Body /\ C3_Stopped]_vars

C3_Witness ==
    \E p \in Calls :
        /\ outcome[p] = "Converged" /\ reported[p] = 3
        /\ x[p] = x_old[p] /\ k[p] = 2

\* C4: with lb = ub in every coordinate a call (allowed at least two
\* iterations) returns Converged with x = lb, within two iterations,
\* whatever A, b and c are.
C4_EqualBoundsConverge ==
    \A p \in Calls :
        (pc[p] = "done" /\ data.lb = data.ub /\ max_iter[p] >= 2)
            => /\ outcome[p] = "Converged"
               /\ result[p] = data.lb
               /\ reported[p] <= 2

\* C5: on A = [1], b = [5], c = [1], lb = [0], ub = [10] with tol = 1e-6
\* and theta = 1 (max_iter allowing the three iterations it takes) the call
\* returns Converged with |x - 5| <= 1e-6.
C5_Data ==
    [A_row |-> <<0>>, A_col |-> <<0>>, A_data |-> <<1>>, A_shape |-> <<1, 1>>,
     b |-> <<Int2Q(5)>>, c |-> <<Int2Q(1)>>, lb |-> <<Int2Q(0)>>, ub |-> <<Int2Q(10)>>]

C5_Call(p) ==
    /\ data = C5_Data /\ tol[p] = <<1, 1000000>> /\ theta[p] = One
    /\ max_iter[p] >= 3 /\ pc[p] = "done"

C5_RoundTrip ==
    \A p \in Calls :
        C5_Call(p) =>
            /\ outcome[p] = "Converged"
            /\ Leq(Sub(result[p][1], Int2Q(5)), <<1, 1000000>>)
            /\ Leq(Sub(Int2Q(5), result[p][1]), <<1, 1000000>>)

C5_Witness ==
    \E p \in Calls :
        C5_Call(p) /\ max_iter[p] = DefaultMaxIter /\ outcome[p] = "Converged"

\* C6: when the triplet arrays differ in length, or a row index is outside
\* [0, m), or a column index is outside [0, n), the call fails at the
\* construction: it gets no further than the error, and has built no
\* matrix, no estimate, no iterate and no result.
C6_Malformed ==
    \/ Len(data.A_row) # Len(data.A_col)
    \/ Len(data.A_row) # Len(data.A_data)
    \/ \E t \in 1..Len(data.A_row) : data.A_row[t] < 0 \/ data.A_row[t] >= data.A_shape[1]
    \/ \E t \in 1..Len(data.A_col) : data.A_col[t] < 0 \/ data.A_col[t] >= data.A_shape[2]

C6_ShapeError ==
    \A p \in Calls :
        (pc[p] # "idle" /\ C6_Malformed) =>
            /\ pc[p] \in {"construct", "error"}
            /\ A[p] = None /\ L[p] = None /\ x[p] = None
            /\ k[p] = 0 /\ result[p] = None

C6_Witness ==
    \E p \in Calls :
        /\ pc[p] = "error"
        /\ Len(data.A_row) = Len(data.A_data) /\ Len(data.A_col) = Len(data.A_data)
        /\ \E t \in 1..Len(data.A_col) : data.A_col[t] = data.A_shape[2]

\* C7: the box projection applied to its own result changes nothing.
C7_Idempotent == proj.stage = "twice" => proj.x = proj.arg

C7_Witness ==
    /\ proj.stage = "twice" /\ Len(proj.x) = 2
    /\ proj.arg # proj.orig /\ AllFinite(proj.x)
    /\ proj.x[1] = proj.lb[1] /\ proj.x[2] = proj.ub[2]

\* C8: the loop starts from x = x_bar = 0, y = 0 with tau = sigma = 1/L,
\* which stay fixed, and every loop body is one step of the recurrence
\*   y <- y + sigma (A x_bar - b);  x_old <- x;  x <- x - tau (A^T y + c),
\*   with the new y;  x <- clamp(x);  x_bar <- x + theta (x - x_old).
C8_RefY(p) ==
    VAdd(y[p], VScale(Div(One, L[p]), VSub(Dot(CooToCsr(data), x_bar[p]), data.b)))

C8_RefX(p) ==
    Clamp(VSub(x[p], VScale(Div(One, L[p]),
                            VAdd(Dot(Transpose(CooToCsr(data)), C8_RefY(p)), data.c))),
          data.lb, data.ub)

C8_RefXBar(p) == VAdd(C8_RefX(p), VScale(theta[p], VSub(C8_RefX(p), x[p])))

C8_Start ==
    \A p \in Calls :
        (pc[p] = "loop" /\ k[p] = 0) =>
            /\ x[p] = Zeros(data.A_shape[2]) /\ x_bar[p] = Zeros(data.A_shape[2])
            /\ y[p] = Zeros(data.A_shape[1])
            /\ sigma[p] = Div(One, L[p]) /\ tau[p] = Div(One, L[p])

C8_Body ==
    \A p \in Calls :
        /\ RanBody(p) =>
              /\ y'[p] = C8_RefY(p)
              /\ x_old'[p] = x[p]
              /\ x'[p] = C8_RefX(p)
              /\ x_bar'[p] = C8_RefXBar(p)
        /\ pc[p] \in {"loop", "done"} =>
              sigma'[p] = sigma[p] /\ tau'[p] = tau[p] /\ L'[p] = L[p]

RECURSIVE C9_Loop(_, _, _, _, _, _)
C9_Loop(M, MT, a, st, s, kk) ==
    IF kk >= a.max_iter \/ kk >= StepCap THEN s.x
    ELSE CHOOSE out \in
            {IF ConvTest(t.x, t.x_old, a.tol) THEN t.x
             ELSE C9_Loop(M, MT, a, st, t, kk + 1) :
                t \in {Body(M, MT, data, st, st, a.theta, s)}} : TRUE

C9_Alone(p) ==
    LET M == CooToCsr(data)
    IN C9_Loop(M, Transpose(M),
               [max_iter |-> max_iter[p], tol |-> tol[p], theta |-> theta[p]],
               Div(One, L[p]),
               [x |-> Zeros(data.A_shape[2]), x_bar |-> Zeros(data.A_shape[2]),
                y |-> Zeros(data.A_shape[1]), x_old |-> None], 0)

C9_SameResult == \A p \in Calls : pc[p] = "done" => result[p] = C9_Alone(p)

C9_Independent == []C9_SameResult /\ [][data' = data]_vars

C9_Witness ==
    /\ pc[1] = "done" /\ pc[2] = "done" /\ L[1] = L[2]
    /\ Iters(1) >= 1 /\ Iters(2) >= 2
    /\ result[1] # result[2]

\* C10: with lb <= ub in every coordinate and L finite and positive, x lies
\* in the box after every loop body, and so does the x a call returns after
\* at least one body.
C10_InBox(v) ==
    \A i \in 1..Len(v) : Leq(data.lb[i], v[i]) /\ Leq(v[i], data.ub[i])

C10_Premise(p) ==
    /\ \A i \in 1..Len(data.lb) : Leq(data.lb[i], data.ub[i])
    /\ L[p] # None /\ IsFinite(L[p]) /\ Lt(Zero, L[p])
    /\ Iters(p) >= 1

C10_StaysInBox ==
    \A p \in Calls :
        C10_Premise(p) =>
            /\ C10_InBox(x[p])
            /\ pc[p] = "done" => C10_InBox(result[p])

C10_Witness ==
    \E p \in Calls :
        /\ C10_Premise(p) /\ pc[p] = "done" /\ Iters(p) >= 2
        /\ data.lb # data.ub
        /\ \E i \in 1..Len(x[p]) : result[p][i] = data.lb[i] /\ data.c[i] = Int2Q(1)

====
